---- MODULE Spec2Model ----
(***************************************************************************)
(* CNC1 Tool Crib: the Streamlit inventory page (src/app.py) and the       *)
(* database connection fallback (src/db.py).                               *)
(*                                                                         *)
(* Text is modelled as a sequence of one-character strings, so that        *)
(* strip(), upper(), re.sub and re.match are computed character by         *)
(* character.  The sqlite connection is shared by every session            *)
(* (st.cache_resource), so there is one connection view (inventory,        *)
(* transactions) and one persisted state (committed).  The timestamp       *)
(* column of a transaction row is the wall clock and is left out.          *)
(***************************************************************************)
EXTENDS Integers, Sequences, FiniteSets, TLC

VARIABLES inventory, transactions, committed, pc, admin_authenticated, run,
          intervening, deleted, db

appvars == <<inventory, transactions, committed, pc, admin_authenticated, run,
             intervening, deleted>>

vars == <<inventory, transactions, committed, pc, admin_authenticated, run,
          intervening, deleted, db>>

-----------------------------------------------------------------------------
(* Bounds of the model *)

MaxItems == 1

MaxTx == 2

MaxStock == 1

MaxQty == 2

Sessions == {"A", "B"}

-----------------------------------------------------------------------------
(* Text *)

Digits == {"0", "1", "2", "3", "4", "5", "6", "7", "8", "9"}

Lowers == <<"a", "b", "c", "d", "e", "f", "g", "h", "i", "j", "k", "l", "m",
            "n", "o", "p", "q", "r", "s", "t", "u", "v", "w", "x", "y", "z">>

Uppers == <<"A", "B", "C", "D", "E", "F", "G", "H", "I", "J", "K", "L", "M",
            "N", "O", "P", "Q", "R", "S", "T", "U", "V", "W", "X", "Y", "Z">>

UpperSet == {Uppers[i] : i \in 1..Len(Uppers)}

LowerSet == {Lowers[i] : i \in 1..Len(Lowers)}

Whitespace == {" ", "\t", "\n"}

UpperChar(c) ==
    IF c \in LowerSet
    THEN Uppers[CHOOSE i \in 1..Len(Lowers) : Lowers[i] = c]
    ELSE c

\* str.upper()
Upper(s) == [i \in 1..Len(s) |-> UpperChar(s[i])]

RECURSIVE LStrip(_)
LStrip(s) ==
    IF s = <<>> THEN s
    ELSE IF Head(s) \in Whitespace THEN LStrip(Tail(s)) ELSE s

RECURSIVE RStrip(_)
RStrip(s) ==
    IF s = <<>> THEN s
    ELSE IF s[Len(s)] \in Whitespace THEN RStrip(SubSeq(s, 1, Len(s) - 1)) ELSE s

\* str.strip()
Strip(s) == RStrip(LStrip(s))

IsLocChar(c) == c \in (Digits \cup UpperSet)

\* re.sub(r'[^0-9A-Z]', '', new_loc)
CleanLoc(new_loc) == SelectSeq(new_loc, IsLocChar)

\* a location that a mistaken pattern without the end anchor would accept
MatchesLocUnanchored(clean_loc) ==
    \E n \in 1..3 :
        /\ Len(clean_loc) > n
        /\ \A i \in 1..n : clean_loc[i] \in Digits
        /\ clean_loc[n + 1] \in UpperSet

\* re.match(r'^\d{1,3}[A-Z]$', clean_loc)
MatchesLoc(clean_loc) ==
    \E n \in 1..3 :
        /\ Len(clean_loc) = n + 1
        /\ \A i \in 1..n : clean_loc[i] \in Digits
        /\ clean_loc[n + 1] \in UpperSet

\* s[i..] starts with p
StartsAt(s, p, i) ==
    /\ i + Len(p) - 1 <= Len(s)
    /\ \A k \in 1..Len(p) : s[i + k - 1] = p[k]

\* SQLite LIKE is case-insensitive for ASCII letters
LikePrefix(s, p) == StartsAt(Upper(s), Upper(p), 1)

LikeSuffix(s, p) ==
    /\ Len(p) <= Len(s)
    /\ StartsAt(Upper(s), Upper(p), Len(s) - Len(p) + 1)

LikeContains(s, p) == \E i \in 1..(Len(s) + 1) : StartsAt(Upper(s), Upper(p), i)

\* re.search(r'\d{1,3}', loc): the first run of digits, at most three of them
extract_cabinet(loc) ==
    IF \E i \in 1..Len(loc) : loc[i] \in Digits
    THEN LET i == CHOOSE i \in 1..Len(loc) :
                      /\ loc[i] \in Digits
                      /\ \A j \in 1..(i - 1) : loc[j] \notin Digits
             n == CHOOSE n \in 1..3 :
                      /\ i + n - 1 <= Len(loc)
                      /\ \A k \in 0..(n - 1) : loc[i + k] \in Digits
                      /\ (n = 3 \/ i + n > Len(loc) \/ loc[i + n] \notin Digits)
         IN  SubSeq(loc, i, i + n - 1)
    ELSE <<>>

\* re.search(r'(?<=\d)[A-Za-z]', loc), upper-cased
extract_drawer(loc) ==
    LET hits == {i \in 2..Len(loc) :
                    loc[i] \in (UpperSet \cup LowerSet) /\ loc[i - 1] \in Digits}
    IN  IF hits = {} THEN <<>>
        ELSE <<UpperChar(loc[CHOOSE i \in hits : \A j \in hits : i <= j])>>

Max(a, b) == IF a >= b THEN a ELSE b

IsPrefix(s, t) == Len(s) <= Len(t) /\ SubSeq(t, 1, Len(s)) = s

-----------------------------------------------------------------------------
(* The database *)

\* sqlite assigns a rowid table's new row one more than the largest rowid
NextRowid(inv) ==
    IF DOMAIN inv = {} THEN 1
    ELSE 1 + CHOOSE m \in DOMAIN inv : \A j \in DOMAIN inv : j <= m

EmptyTable == [i \in {} |-> 0]

InsertRow(inv, row) ==
    [i \in DOMAIN inv \cup {NextRowid(inv)} |->
        IF i \in DOMAIN inv THEN inv[i] ELSE row]

\* UPDATE inventory SET quantity=? WHERE rowid=?
UpdateQuantity(inv, id, qty) ==
    [i \in DOMAIN inv |-> IF i = id THEN [inv[i] EXCEPT !.quantity = qty] ELSE inv[i]]

\* UPDATE inventory SET notes=? WHERE rowid=?
UpdateNotes(inv, id, notes) ==
    [i \in DOMAIN inv |-> IF i = id THEN [inv[i] EXCEPT !.notes = notes] ELSE inv[i]]

\* a mistaken INSERT OR REPLACE that overwrites the newest ledger row
InsertTxReplacing(tx, row) ==
    IF tx = <<>> THEN <<row>> ELSE [tx EXCEPT ![Len(tx)] = row]

\* INSERT INTO transactions (item, action, user, timestamp, qty) VALUES (...)
InsertTx(tx, row) == Append(tx, row)

\* conn.commit(): the connection's pending changes, whoever made them, persist
Persisted(inv, tx) == [inventory |-> inv, transactions |-> tx]

-----------------------------------------------------------------------------
(* Widget values *)

All == <<"A", "l", "l">>

ADMIN_PASSWORD == "surgeprotection"

Actions == {"None", "Check Out", "Check In"}

NoRow == [id |-> 0, item |-> <<>>, quantity |-> 0]

\* the locals of one script run of a session: the row the search returned
\* (r), the widget values of its expander, the position of the ledger row
\* the run inserted, the rowid of the inventory row it inserted, and the
\* rows the toggle selected
IdleRun ==
    [op |-> "none", r |-> NoRow, act |-> "None", usr |-> <<>>, q_val |-> 1,
     txpos |-> 0, newid |-> 0, rows |-> EmptyTable]

-----------------------------------------------------------------------------
(* Helpers of the page *)

get_cabinets(inv) ==
    {extract_cabinet(inv[i].location) : i \in DOMAIN inv} \ {<<>>}

get_drawers(inv) ==
    {extract_drawer(inv[i].location) : i \in DOMAIN inv} \ {<<>>}

\* the WHERE clause of the admin toggle
ToggleMatches(loc, cab, drw) ==
    IF cab # All /\ drw # All THEN loc = cab \o drw
    ELSE IF cab # All THEN LikePrefix(loc, cab)
    ELSE IF drw # All THEN LikeSuffix(loc, drw)
    ELSE TRUE

\* the WHERE clause of the inventory search
SearchMatches(row, name, cab, drw, qty) ==
    /\ (name # <<>> => LikeContains(row.item, name))
    /\ IF cab # All /\ drw # All THEN row.location = cab \o drw
       ELSE IF cab # All THEN LikePrefix(row.location, cab)
       ELSE IF drw # All THEN LikeSuffix(row.location, drw)
       ELSE TRUE
    /\ (qty > 0 => row.quantity = qty)

\* the rowids the inventory tab lists; nothing is listed without a filter
SearchRows(inv, name, cab, drw, qty) ==
    IF name # <<>> \/ cab # All \/ drw # All \/ qty > 0
    THEN {i \in DOMAIN inv : SearchMatches(inv[i], name, cab, drw, qty)}
    ELSE {}

\* if add and new_item and new_loc
AddAttempted(new_item, new_loc) == new_item # <<>> /\ new_loc # <<>>

\* text_input(...).strip().upper(), then re.sub
NewLocation(loc) == CleanLoc(Upper(Strip(loc)))

LocationOk(clean_loc) == MatchesLoc(clean_loc)

NewRow(clean_loc, new_item, new_notes, new_qty) ==
    [location |-> clean_loc, item |-> Strip(new_item),
     notes |-> Strip(new_notes), quantity |-> new_qty]

\* a Submit check that forgets to trim the user
AcceptedUntrimmed(act, usr) == act # "None" /\ usr # <<>>

\* ... and act != "None" and usr.strip()
Accepted(act, usr) == act # "None" /\ Strip(usr) # <<>>

\* a ledger row that records the change applied to the stock
TxRowApplied(r, act, usr, q_val) ==
    [item |-> r.item, action |-> act, user |-> Strip(usr),
     qty |-> IF act = "Check Out" /\ q_val > r.quantity THEN r.quantity ELSE q_val]

\* (r['item'], act, usr.strip(), ts, q_val)
TxRow(r, act, usr, q_val) ==
    [item |-> r.item, action |-> act, user |-> Strip(usr), qty |-> q_val]

\* new_qty = r['quantity'] - q_val if act == "Check Out" else r['quantity'] + q_val
NewQty(act, quantity, q_val) ==
    IF act = "Check Out" THEN quantity - q_val ELSE quantity + q_val

\* a write that forgets the floor
Unclamped(new_qty) == new_qty

\* max(0, new_qty)
Clamped(new_qty) == Max(0, new_qty)

\* an UPDATE computed from the stored quantity (quantity = quantity + ?)
StoredQuantity(s) == inventory[run[s].r.id].quantity

\* r['quantity']: the quantity this run's search query returned
ReadQuantity(s) == run[s].r.quantity

\* a connection in autocommit mode
AutocommitPending(c, inv, tx) == Persisted(inv, tx)

\* sqlite3 opens a transaction before the INSERT: nothing persists until commit
Pending(c, inv, tx) == c

\* new_qty = 1 if qty == 0 else 0
Toggled(qty) == IF qty = 0 THEN 1 ELSE 0

-----------------------------------------------------------------------------
(* src/db.py: a URL is scheme://netloc/path?query; the netloc is a sequence  *)
(* of tokens, its separators "@", ":", "[" and "]" being tokens of their own, *)
(* so that urlparse's partitions are computed on it.                         *)

MaxAddrs == 2

AF_INET == "AF_INET"

AF_INET6 == "AF_INET6"

\* port = parsed.port or 5432, as it is written into the netloc
DefaultPort == <<"5432">>

\* the position of the first (last) token c of s, 0 when there is none
Find(s, c) ==
    IF \E i \in 1..Len(s) : s[i] = c
    THEN CHOOSE i \in 1..Len(s) : s[i] = c /\ \A j \in 1..(i - 1) : s[j] # c
    ELSE 0

RFind(s, c) ==
    IF \E i \in 1..Len(s) : s[i] = c
    THEN CHOOSE i \in 1..Len(s) : s[i] = c /\ \A j \in (i + 1)..Len(s) : s[j] # c
    ELSE 0

\* s.partition(c)[0] and s.partition(c)[2]
Before(s, c) == IF Find(s, c) = 0 THEN s ELSE SubSeq(s, 1, Find(s, c) - 1)

After(s, c) == IF Find(s, c) = 0 THEN <<>> ELSE SubSeq(s, Find(s, c) + 1, Len(s))

\* urllib.parse: netloc.rpartition('@')
UserInfo(netloc) ==
    IF RFind(netloc, "@") = 0 THEN <<>> ELSE SubSeq(netloc, 1, RFind(netloc, "@") - 1)

HostInfo(netloc) == SubSeq(netloc, RFind(netloc, "@") + 1, Len(netloc))

\* parsed.username, parsed.password (None and '' are both <<>>)
Username(netloc) == Before(UserInfo(netloc), ":")

Password(netloc) == After(UserInfo(netloc), ":")

\* parsed.hostname, parsed.port
Hostname(netloc) ==
    IF Find(HostInfo(netloc), "[") # 0
    THEN Before(After(HostInfo(netloc), "["), "]")
    ELSE Before(HostInfo(netloc), ":")

Port(netloc) ==
    IF Find(HostInfo(netloc), "[") # 0
    THEN After(After(After(HostInfo(netloc), "["), "]"), ":")
    ELSE After(HostInfo(netloc), ":")

\* the netloc of a fallback attempt
NumericNetloc(parsed, family, ip) ==
    LET username == Username(parsed.netloc)
        password == Password(parsed.netloc)
        port == IF Port(parsed.netloc) = <<>> THEN DefaultPort ELSE Port(parsed.netloc)
        userinfo == IF username # <<>>
                    THEN username
                         \o (IF password # <<>> THEN <<":", "<redacted>">> ELSE <<>>)
                         \o <<"@">>
                    ELSE <<>>
        host_part == IF family = AF_INET6 THEN <<"[">> \o ip \o <<"]">> ELSE ip
    IN  userinfo \o host_part \o <<":">> \o port

\* new_url = urlunparse(parsed._replace(netloc=netloc))
NumericUrl(parsed, family, ip) ==
    [parsed EXCEPT !.netloc = NumericNetloc(parsed, family, ip)]

NoUrl == [scheme |-> "", netloc |-> <<>>, path |-> "", query |-> ""]

\* the locals of _try_connect_and_maybe_address_fallback
DbIdle ==
    [pc |-> "idle", url |-> NoUrl, addrinfos |-> <<>>, i |-> 0, family |-> "",
     ip |-> <<>>, new_url |-> NoUrl, engine |-> NoUrl, connected |-> FALSE,
     error |-> "none"]

-----------------------------------------------------------------------------
(* The state after construction: empty tables, nobody logged in *)

AppInit ==
    /\ inventory = EmptyTable
    /\ transactions = <<>>
    /\ committed = Persisted(EmptyTable, <<>>)
    /\ pc = [s \in Sessions |-> "idle"]
    /\ admin_authenticated = [s \in Sessions |-> FALSE]
    /\ run = [s \in Sessions |-> IdleRun]
    /\ intervening = {}
    /\ deleted = {}

\* sessions whose INSERT is pending when another session commits
Overtaken(s) == intervening \cup {t \in Sessions \ {s} : pc[t] = "inserted"}

-----------------------------------------------------------------------------
(* Script runs.  Every run starts with lines 143-155, which commit; a       *)
(* handler that ends in st.rerun() is followed at once by the next run's    *)
(* commit, which is folded into the handler's last step.                    *)

\* a script run with no button pressed (a widget changed, a page load)
Refresh(s) ==
    /\ pc[s] = "idle"
    /\ committed' = Persisted(inventory, transactions)
    /\ intervening' = Overtaken(s)
    /\ UNCHANGED <<inventory, transactions, pc, admin_authenticated, run, deleted, db>>

\* the Add Item form
AddItem(s, new_item, loc, new_qty, new_notes) ==
    /\ pc[s] = "idle"
    /\ LET new_loc == Upper(Strip(loc))
           clean_loc == NewLocation(loc)
       IN  IF ~AddAttempted(new_item, new_loc)
           THEN /\ pc' = [pc EXCEPT ![s] = "ignored"]
                /\ run' = [run EXCEPT ![s] = [IdleRun EXCEPT !.op = "add"]]
                /\ committed' = Persisted(inventory, transactions)
                /\ UNCHANGED inventory
           ELSE IF ~LocationOk(clean_loc)
           THEN /\ pc' = [pc EXCEPT ![s] = "rejected"]
                /\ run' = [run EXCEPT ![s] = [IdleRun EXCEPT !.op = "add"]]
                /\ committed' = Persisted(inventory, transactions)
                /\ UNCHANGED inventory
           ELSE /\ Cardinality(DOMAIN inventory) < MaxItems
                /\ inventory' = InsertRow(inventory,
                                    NewRow(clean_loc, new_item, new_notes, new_qty))
                /\ committed' = Persisted(inventory', transactions)
                /\ pc' = [pc EXCEPT ![s] = "added"]
                /\ run' = [run EXCEPT ![s] = [IdleRun EXCEPT !.op = "add",
                               !.newid = NextRowid(inventory)]]
    /\ intervening' = Overtaken(s)
    /\ UNCHANGED <<transactions, admin_authenticated, deleted, db>>

\* the admin panel: Login
Login(s, pwd) ==
    /\ pc[s] = "idle"
    /\ ~admin_authenticated[s]
    /\ committed' = Persisted(inventory, transactions)
    /\ intervening' = Overtaken(s)
    /\ admin_authenticated' = [admin_authenticated EXCEPT ![s] = (pwd = ADMIN_PASSWORD)]
    /\ UNCHANGED <<inventory, transactions, pc, run, deleted, db>>

\* the admin panel: Logout
Logout(s) ==
    /\ pc[s] = "idle"
    /\ admin_authenticated[s]
    /\ committed' = Persisted(inventory, transactions)
    /\ intervening' = Overtaken(s)
    /\ admin_authenticated' = [admin_authenticated EXCEPT ![s] = FALSE]
    /\ UNCHANGED <<inventory, transactions, pc, run, deleted, db>>

\* the admin panel: Toggle 0 to 1, up to the SELECT
ToggleSelect(s, toggle_cab, toggle_drw) ==
    /\ pc[s] = "idle"
    /\ admin_authenticated[s]
    /\ toggle_cab \in {All} \cup get_cabinets(inventory)
    /\ toggle_drw \in {All} \cup get_drawers(inventory)
    /\ committed' = Persisted(inventory, transactions)
    /\ intervening' = Overtaken(s)
    /\ LET hit == {i \in DOMAIN inventory :
                      ToggleMatches(inventory[i].location, toggle_cab, toggle_drw)}
       IN  run' = [run EXCEPT ![s] = [IdleRun EXCEPT !.op = "toggle",
                       !.rows = [i \in hit |-> inventory[i].quantity]]]
    /\ pc' = [pc EXCEPT ![s] = "toggling"]
    /\ UNCHANGED <<inventory, transactions, admin_authenticated, deleted, db>>

\* the admin panel: the UPDATE of every selected row, and the commit
ToggleUpdate(s) ==
    /\ pc[s] = "toggling"
    /\ inventory' = [i \in DOMAIN inventory |->
                        IF i \in DOMAIN run[s].rows
                        THEN [inventory[i] EXCEPT !.quantity = Toggled(run[s].rows[i])]
                        ELSE inventory[i]]
    /\ committed' = Persisted(inventory', transactions)
    /\ intervening' = Overtaken(s)
    /\ pc' = [pc EXCEPT ![s] = "idle"]
    /\ run' = [run EXCEPT ![s] = IdleRun]
    /\ UNCHANGED <<transactions, admin_authenticated, deleted, db>>

\* some filter of the inventory tab lists the row
Listed(inv, id) ==
    \E name \in {<<>>, <<"D">>}, cab \in {All} \cup get_cabinets(inv),
       drw \in {All} \cup get_drawers(inv), qty \in 0..MaxStock :
       id \in SearchRows(inv, name, cab, drw, qty)

\* the inventory tab is rendered with Submit pressed on one row: the search
\* query, the row's widgets, and the check of the action and the user
SearchRun(s, id, act, usr, q_val) ==
    /\ pc[s] = "idle"
    /\ Listed(inventory, id)
    /\ act = "Check In" => inventory[id].quantity + q_val <= MaxStock
    /\ committed' = Persisted(inventory, transactions)
    /\ intervening' = Overtaken(s)
    /\ IF Accepted(act, usr)
       THEN /\ run' = [run EXCEPT ![s] = [IdleRun EXCEPT !.op = "submit",
                           !.r = [id |-> id, item |-> inventory[id].item,
                                  quantity |-> inventory[id].quantity],
                           !.act = act, !.usr = usr, !.q_val = q_val]]
            /\ pc' = [pc EXCEPT ![s] = "submit"]
       ELSE /\ run' = [run EXCEPT ![s] = [IdleRun EXCEPT !.op = "submit"]]
            /\ pc' = [pc EXCEPT ![s] = "ignored"]
    /\ UNCHANGED <<inventory, transactions, admin_authenticated, deleted, db>>

\* Submit: the ledger INSERT
SubmitInsert(s) ==
    /\ pc[s] = "submit"
    /\ Len(transactions) < MaxTx
    /\ transactions' = InsertTx(transactions,
                           TxRow(run[s].r, run[s].act, run[s].usr, run[s].q_val))
    /\ committed' = Pending(committed, inventory, transactions')
    /\ run' = [run EXCEPT ![s].txpos = Len(transactions')]
    /\ pc' = [pc EXCEPT ![s] = "inserted"]
    /\ UNCHANGED <<inventory, admin_authenticated, intervening, deleted, db>>

\* Submit: the quantity UPDATE
SubmitUpdate(s) ==
    /\ pc[s] = "inserted"
    /\ inventory' = UpdateQuantity(inventory, run[s].r.id,
                        Clamped(NewQty(run[s].act, ReadQuantity(s), run[s].q_val)))
    /\ pc' = [pc EXCEPT ![s] = "updated"]
    /\ UNCHANGED <<transactions, committed, admin_authenticated, run, intervening, deleted, db>>

\* Submit: conn.commit(), then st.rerun()
SubmitCommit(s) ==
    /\ pc[s] = "updated"
    /\ committed' = Persisted(inventory, transactions)
    /\ intervening' = Overtaken(s) \ {s}
    /\ pc' = [pc EXCEPT ![s] = "idle"]
    /\ run' = [run EXCEPT ![s] = IdleRun]
    /\ UNCHANGED <<inventory, transactions, admin_authenticated, deleted, db>>

\* Save: the notes of a listed row
SaveNotes(s, id, notes) ==
    /\ pc[s] = "idle"
    /\ Listed(inventory, id)
    /\ inventory' = UpdateNotes(inventory, id, Strip(notes))
    /\ committed' = Persisted(inventory', transactions)
    /\ intervening' = Overtaken(s)
    /\ UNCHANGED <<transactions, pc, admin_authenticated, run, deleted, db>>

\* the page of a run that inserted, ignored or refused is shown
EndRun(s) ==
    /\ pc[s] \in {"added", "ignored", "rejected"}
    /\ pc' = [pc EXCEPT ![s] = "idle"]
    /\ run' = [run EXCEPT ![s] = IdleRun]
    /\ UNCHANGED <<inventory, transactions, committed, admin_authenticated, intervening, deleted, db>>

-----------------------------------------------------------------------------
(* Inputs *)

ItemNames == {<<>>, <<"d">>, <<" ", "e">>}

Locations == {<<>>, <<" ", "5", "a">>, <<"1", "2">>, <<"1", "0", "5", "-", "c">>,
              <<"1", "0", "5", "A", "B">>}

NotesTexts == {<<>>, <<"n", " ">>}

Users == {<<>>, <<" ">>, <<"a", "l", " ">>}

Passwords == {ADMIN_PASSWORD, "guess"}

\* the steps of the page for the given sessions, with the Add Item form fed
\* from the given sets
Step(sessions, names, locs, notes) ==
    \E s \in sessions :
        \/ Refresh(s)
        \/ \E new_item \in names, loc \in locs,
              new_qty \in 0..MaxStock, new_notes \in notes :
              AddItem(s, new_item, loc, new_qty, new_notes)
        \/ \E id \in DOMAIN inventory, act \in Actions, usr \in Users,
              q_val \in 1..MaxQty : SearchRun(s, id, act, usr, q_val)
        \/ SubmitInsert(s)
        \/ SubmitUpdate(s)
        \/ SubmitCommit(s)
        \/ \E id \in DOMAIN inventory, notes_in \in notes : SaveNotes(s, id, notes_in)
        \/ EndRun(s)

\* the steps of the admin panel
AdminStep(sessions) ==
    \E s \in sessions :
        \/ \E pwd \in Passwords : Login(s, pwd)
        \/ Logout(s)
        \/ \E cab \in {All} \cup get_cabinets(inventory),
              drw \in {All} \cup get_drawers(inventory) : ToggleSelect(s, cab, drw)
        \/ ToggleUpdate(s)

Init == AppInit /\ db = DbIdle

Next ==
    \/ Step(Sessions, {<<>>, <<"d">>}, {<<" ", "5", "a">>, <<"1", "2">>}, NotesTexts)
    \/ AdminStep(Sessions)

\* the page with concurrent sessions
Spec == Init /\ [][Next]_vars

-----------------------------------------------------------------------------
(* The Add Item form alone, fed with every kind of input *)

NextAdd ==
    \/ Step({"A"}, ItemNames, Locations, NotesTexts)
    \/ AdminStep({"A"})

\* one session, the Add Item form fed from ItemNames, Locations, NotesTexts
SpecAdd == Init /\ [][NextAdd]_vars

-----------------------------------------------------------------------------
(* The process dies *)

\* The server process is killed: what was not committed is rolled back when
\* the database is next opened, and every session's state is lost.  run and
\* intervening keep what they held at the crash; a session that was between
\* its INSERT and its UPDATE is marked "between".
Crash ==
    /\ \E s \in Sessions : pc[s] \notin {"dead", "between"}
    /\ pc' = [s \in Sessions |-> IF pc[s] = "inserted" THEN "between" ELSE "dead"]
    /\ inventory' = committed.inventory
    /\ transactions' = committed.transactions
    /\ admin_authenticated' = [s \in Sessions |-> FALSE]
    /\ UNCHANGED <<committed, run, intervening, deleted, db>>

NextCrash ==
    \/ Step(Sessions, {<<>>, <<"d">>}, {<<" ", "5", "a">>, <<"1", "2">>}, NotesTexts)
    \/ Crash

\* the page with concurrent sessions and a crash
SpecCrash == Init /\ [][NextCrash]_vars

-----------------------------------------------------------------------------
(* Delete, a handler of the specification (4.4) that src/app.py lacks *)

\* DELETE FROM inventory WHERE rowid=?
RemoveRow(inv, id) == [i \in DOMAIN inv \ {id} |-> inv[i]]

\* a ledger entry with action=Deleted and the item's quantity at the time
DeletedRow(row, usr) ==
    [item |-> row.item, action |-> "Deleted", user |-> Strip(usr), qty |-> row.quantity]

\* Delete, step 1: the ledger entry
DeleteAppend(s, id, usr) ==
    /\ pc[s] = "idle"
    /\ Listed(inventory, id)
    /\ Strip(usr) # <<>>
    /\ Len(transactions) < MaxTx
    /\ transactions' = InsertTx(transactions, DeletedRow(inventory[id], usr))
    /\ committed' = Persisted(inventory, transactions)
    /\ intervening' = Overtaken(s)
    /\ run' = [run EXCEPT ![s] = [IdleRun EXCEPT !.op = "delete",
                   !.r = [id |-> id, item |-> inventory[id].item,
                          quantity |-> inventory[id].quantity],
                   !.txpos = Len(transactions')]]
    /\ pc' = [pc EXCEPT ![s] = "deleting"]
    /\ UNCHANGED <<inventory, admin_authenticated, deleted, db>>

\* Delete, step 2: the row is removed (NotFoundError when it is gone)
DeleteRemove(s) ==
    /\ pc[s] = "deleting"
    /\ IF run[s].r.id \in DOMAIN inventory
       THEN /\ inventory' = RemoveRow(inventory, run[s].r.id)
            /\ deleted' = deleted \cup {run[s].r.id}
            /\ pc' = [pc EXCEPT ![s] = "idle"]
       ELSE /\ pc' = [pc EXCEPT ![s] = "rejected"]
            /\ UNCHANGED <<inventory, deleted>>
    /\ committed' = Persisted(inventory', transactions)
    /\ intervening' = Overtaken(s)
    /\ run' = [run EXCEPT ![s] = [IdleRun EXCEPT !.op = "delete"]]
    /\ UNCHANGED <<transactions, admin_authenticated, db>>

DeleteStep(sessions) ==
    \E s \in sessions :
        \/ \E id \in DOMAIN inventory, usr \in Users : DeleteAppend(s, id, usr)
        \/ DeleteRemove(s)

NextDelete ==
    \/ Step({"A"}, {<<>>, <<"d">>, <<" ", "e">>}, {<<" ", "5", "a">>, <<"1", "2">>},
            NotesTexts)
    \/ DeleteStep({"A"})

\* one session, with Delete
SpecDelete == Init /\ [][NextDelete]_vars

-----------------------------------------------------------------------------
(* src/db.py: _try_connect_and_maybe_address_fallback *)

Netlocs ==
    {<<"db.example.com">>,
     <<"db.example.com", ":", "6543">>,
     <<"u", "@", "db.example.com">>,
     <<"u", ":", "pw", "@", "db.example.com">>,
     <<"u", ":", "pw", "@", "db.example.com", ":", "6543">>}

Urls ==
    {[scheme |-> "postgresql", netloc |-> n, path |-> "/app", query |-> q] :
        n \in Netlocs, q \in {"", "sslmode=require"}}
    \cup {[scheme |-> "sqlite", netloc |-> <<>>, path |-> "/data/mydb.db", query |-> ""]}

Addresses ==
    {[family |-> AF_INET, ip |-> <<"10.0.0.1">>],
     [family |-> AF_INET6, ip |-> <<"2001", ":", "db8", ":", ":", "1">>]}

AddrLists == UNION {[1..n -> Addresses] : n \in 0..MaxAddrs}

\* the outcomes of engine.connect() on the original URL: success, an
\* OperationalError whose message names a network failure, another
\* OperationalError, an exception of another class
FirstOutcomes == {"ok", "network", "operational", "exception"}

InitUrl ==
    /\ AppInit
    /\ db \in {[DbIdle EXCEPT !.pc = "start", !.url = u] : u \in Urls}

\* if parsed.scheme.startswith("sqlite"): return _engine_from_url(db_url)
SqliteShortcut ==
    /\ db.pc = "start"
    /\ db.url.scheme = "sqlite"
    /\ db' = [db EXCEPT !.pc = "returned", !.engine = db.url]
    /\ UNCHANGED appvars

\* the original URL is tried first
ConnectOriginal(outcome) ==
    /\ db.pc = "start"
    /\ db.url.scheme # "sqlite"
    /\ db' = CASE outcome = "ok" ->
                    [db EXCEPT !.pc = "returned", !.engine = db.url, !.connected = TRUE]
               [] outcome = "network" -> [db EXCEPT !.pc = "resolve", !.error = "orig_err"]
               [] outcome = "operational" -> [db EXCEPT !.pc = "raised", !.error = "orig_err"]
               [] OTHER -> [db EXCEPT !.pc = "raised", !.error = "exception"]
    /\ UNCHANGED appvars

\* socket.getaddrinfo(host, port, ...)
Resolve(ok, addrs) ==
    /\ db.pc = "resolve"
    /\ db' = IF ok
             THEN [db EXCEPT !.pc = "loop", !.addrinfos = addrs, !.i = 1]
             ELSE [db EXCEPT !.pc = "raised"]
    /\ UNCHANGED appvars

\* one turn of the loop: the URL of the numeric address is built and tried
TryAddress(ok) ==
    /\ db.pc = "loop"
    /\ db.i <= Len(db.addrinfos)
    /\ LET a == db.addrinfos[db.i]
           new_url == NumericUrl(db.url, a.family, a.ip)
       IN  db' = IF ok
                 THEN [db EXCEPT !.pc = "returned", !.family = a.family, !.ip = a.ip,
                                 !.new_url = new_url, !.engine = new_url,
                                 !.connected = TRUE]
                 ELSE [db EXCEPT !.family = a.family, !.ip = a.ip,
                                 !.new_url = new_url, !.i = db.i + 1]
    /\ UNCHANGED appvars

\* a loop end that lets the last attempt's exception escape
ExhaustedWithLastError ==
    /\ db.pc = "loop"
    /\ db.i > Len(db.addrinfos)
    /\ db' = [db EXCEPT !.pc = "raised", !.error = "attempt_err"]
    /\ UNCHANGED appvars

\* no resolved address worked: raise orig_err
Exhausted ==
    /\ db.pc = "loop"
    /\ db.i > Len(db.addrinfos)
    /\ db' = [db EXCEPT !.pc = "raised"]
    /\ UNCHANGED appvars

NextUrl ==
    \/ SqliteShortcut
    \/ \E outcome \in FirstOutcomes : ConnectOriginal(outcome)
    \/ \E ok \in BOOLEAN, addrs \in AddrLists : Resolve(ok, addrs)
    \/ \E ok \in BOOLEAN : TryAddress(ok)
    \/ Exhausted

\* one call of _try_connect_and_maybe_address_fallback
SpecUrl == InitUrl /\ [][NextUrl]_vars

\* the call runs on: the function is sequential code, and every connect and
\* getaddrinfo call returns or raises
SpecUrlFair == InitUrl /\ [][NextUrl]_vars /\ WF_vars(NextUrl)

-----------------------------------------------------------------------------
(* What the specification says, stated without the operators of the model *)

\* v is u without its leading and trailing whitespace
IsTrimOf(v, u) ==
    \E i \in 1..(Len(u) + 1), j \in 0..Len(u) :
        /\ v = SubSeq(u, i, j)
        /\ \A k \in 1..(i - 1) : u[k] \in Whitespace
        /\ \A k \in (j + 1)..Len(u) : u[k] \in Whitespace
        /\ v # <<>> => (v[1] \notin Whitespace /\ v[Len(v)] \notin Whitespace)

\* u is blank after trimming
IsBlank(u) == \A k \in 1..Len(u) : u[k] \in Whitespace

\* the quantity the specification asks for after a Check Out / Check In of q at c
Adjusted(act, c, q) ==
    IF act = "Check Out" THEN (IF q > c THEN 0 ELSE c - q) ELSE c + q

\* session s takes a step of its script run
Steps(s) == pc'[s] # pc[s] \/ run'[s] # run[s]

-----------------------------------------------------------------------------
(* C1 *)

\* C1: in every reachable state, whatever the interleaving of add, check-out,
\* check-in, notes-save and admin-toggle across sessions, every inventory
\* row's quantity is a non-negative integer, in the connection's view and in
\* the persisted state.
C1_QuantityNonNegative ==
    /\ \A i \in DOMAIN inventory : inventory[i].quantity \in Nat
    /\ \A i \in DOMAIN committed.inventory : committed.inventory[i].quantity \in Nat

\* C1 witness: a Check Out of more than the stock has been written.
C1_OverCheckoutWritten ==
    \E s \in Sessions :
        /\ pc[s] = "updated"
        /\ run[s].act = "Check Out"
        /\ run[s].q_val > run[s].r.quantity
        /\ inventory[run[s].r.id].quantity = 0

-----------------------------------------------------------------------------
(* C2 *)

\* C2: a Check Out of q on an item whose stored quantity is c leaves the
\* quantity max(0, c - q), and a Check In leaves c + q, c being the quantity
\* stored when the UPDATE runs.
C2_UpdateFromStored ==
    [][\A s \in Sessions :
          (pc[s] = "inserted" /\ pc'[s] = "updated") =>
              inventory'[run[s].r.id].quantity =
                  Adjusted(run[s].act, inventory[run[s].r.id].quantity, run[s].q_val)]_vars

\* What the handler does compute: the same, with c the quantity its own
\* search query returned.
C2_UpdateFromRead ==
    [][\A s \in Sessions :
          (pc[s] = "inserted" /\ pc'[s] = "updated") =>
              inventory'[run[s].r.id].quantity =
                  Adjusted(run[s].act, run[s].r.quantity, run[s].q_val)]_vars

-----------------------------------------------------------------------------
(* C3 *)

\* C3: every accepted Check Out / Check In appends exactly one transaction
\* row: its item is the name the item has in the store before the mutation,
\* its action the selected action, its user the trimmed user, its qty the
\* requested quantity; the rest of the handler appends nothing.
C3_OneLedgerRow ==
    [][\A s \in Sessions :
          /\ (pc[s] = "submit" /\ Steps(s)) =>
                 /\ pc'[s] = "inserted"
                 /\ Len(transactions') = Len(transactions) + 1
                 /\ SubSeq(transactions', 1, Len(transactions)) = transactions
                 /\ LET row == transactions'[Len(transactions')]
                    IN  /\ row.item = inventory[run[s].r.id].item
                        /\ row.action = run[s].act
                        /\ IsTrimOf(row.user, run[s].usr)
                        /\ row.qty = run[s].q_val
          /\ (pc[s] \in {"inserted", "updated"} /\ Steps(s)) =>
                 transactions' = transactions]_vars

\* C3 witness: more than the stock was checked out; the stock is 0 and the
\* ledger row holds the requested quantity.
C3_RequestedQtyLogged ==
    \E s \in Sessions :
        /\ pc[s] = "updated"
        /\ run[s].act = "Check Out"
        /\ run[s].q_val > run[s].r.quantity
        /\ run[s].r.quantity > 0
        /\ inventory[run[s].r.id].quantity = 0
        /\ transactions[run[s].txpos].qty = run[s].q_val

-----------------------------------------------------------------------------
(* C4 *)

\* C4: a Submit whose action is "None", or whose user is blank after
\* trimming, is a no-op: the run is ignored, no transaction row is appended
\* and no inventory row changes, then or when the run ends.
C4_IgnoredSubmit ==
    [][\A s \in Sessions :
          /\ (pc[s] = "idle" /\ run'[s].op = "submit") =>
                 \A act \in Actions, usr \in Users :
                     (act = "None" \/ IsBlank(usr)) =>
                         \/ /\ pc'[s] = "ignored"
                            /\ inventory' = inventory
                            /\ transactions' = transactions
                         \/ \A id \in DOMAIN inventory, q_val \in 1..MaxQty :
                                ~SearchRun(s, id, act, usr, q_val)
          /\ (pc[s] = "ignored" /\ Steps(s)) =>
                 /\ pc'[s] = "idle"
                 /\ inventory' = inventory
                 /\ transactions' = transactions]_vars

\* C4 witness: a Submit has been ignored while the store holds a row and the
\* ledger is still empty.
C4_SubmitIgnored ==
    \E s \in Sessions :
        /\ pc[s] = "ignored"
        /\ run[s].op = "submit"
        /\ DOMAIN inventory # {}
        /\ transactions = <<>>

-----------------------------------------------------------------------------
(* C7 *)

\* C7: two sessions that have both read quantity c of the same row and have
\* both written leave the quantity computed from c by one of them alone,
\* with both ledger rows recorded.
C7_LastWriterWins ==
    \A s, t \in Sessions :
        (/\ s # t
         /\ pc[s] = "updated" /\ pc[t] = "updated"
         /\ run[s].r.id = run[t].r.id
         /\ run[s].r.quantity = run[t].r.quantity) =>
            /\ inventory[run[s].r.id].quantity \in
                   {Adjusted(run[x].act, run[x].r.quantity, run[x].q_val) : x \in {s, t}}
            /\ run[s].txpos # run[t].txpos
            /\ \A x \in {s, t} :
                   /\ run[x].txpos \in 1..Len(transactions)
                   /\ transactions[run[x].txpos].qty = run[x].q_val
                   /\ transactions[run[x].txpos].action = run[x].act

\* C7 witness: both sessions read c and wrote; the quantity is not what the
\* two changes give one after the other, in either order.
C7_LostUpdate ==
    \E s, t \in Sessions :
        /\ s # t
        /\ pc[s] = "updated" /\ pc[t] = "updated"
        /\ run[s].r.id = run[t].r.id
        /\ run[s].r.quantity = run[t].r.quantity
        /\ LET c == run[s].r.quantity
               one(x, q) == Adjusted(run[x].act, q, run[x].q_val)
           IN  /\ inventory[run[s].r.id].quantity # one(t, one(s, c))
               /\ inventory[run[s].r.id].quantity # one(s, one(t, c))
        /\ Len(transactions) >= 2

-----------------------------------------------------------------------------
(* C9 *)

\* C9: the ledger is append-only: every step of add, check-out, check-in,
\* notes-save and admin-toggle leaves the rows already written in place and
\* unmodified, in the connection's view and in the persisted state.
C9_AppendOnly ==
    [][/\ IsPrefix(transactions, transactions')
       /\ IsPrefix(committed.transactions, committed'.transactions)]_vars

\* C9 witness: two rows have been written and persisted, one after the other.
C9_TwoRowsKept ==
    /\ Len(transactions) >= 2
    /\ committed.transactions = transactions
    /\ \A s \in Sessions : pc[s] = "idle"

-----------------------------------------------------------------------------
(* C5 *)

\* C5: deleting item X appends exactly one transaction with action=Deleted
\* and qty equal to X's quantity immediately before removal, and after the
\* deletion no inventory search ever returns a row with X's old id.
C5_DeleteLogsOnceAndIdGone ==
    /\ [][\A s \in Sessions :
             (pc[s] = "deleting" /\ Steps(s)) =>
                 /\ run[s].r.id \notin DOMAIN inventory'
                 /\ transactions' = transactions
                 /\ transactions[run[s].txpos].action = "Deleted"
                 /\ transactions[run[s].txpos].qty = inventory[run[s].r.id].quantity]_vars
    /\ [](\A id \in deleted : ~Listed(inventory, id))

\* The first half alone: the one Deleted row and its quantity.
C5_DeleteLogsOnce ==
    [][\A s \in Sessions :
          (pc[s] = "deleting" /\ Steps(s)) =>
              /\ run[s].r.id \notin DOMAIN inventory'
              /\ transactions' = transactions
              /\ transactions[run[s].txpos].action = "Deleted"
              /\ transactions[run[s].txpos].qty = inventory[run[s].r.id].quantity]_vars

-----------------------------------------------------------------------------
(* C6 *)

\* the ledger row session s inserted is in the persisted ledger
RowPersisted(s) ==
    /\ run[s].txpos \in 1..Len(committed.transactions)
    /\ committed.transactions[run[s].txpos].qty = run[s].q_val
    /\ committed.transactions[run[s].txpos].action = run[s].act

\* C6: a crash between the ledger INSERT and the quantity UPDATE of a
\* check-out/check-in leaves, in the persisted state, an orphan ledger entry
\* with no matching quantity change.
C6_CrashLeavesOrphan ==
    \A s \in Sessions : pc[s] = "between" => RowPersisted(s)

\* C6 as amended: the two statements run in one sqlite transaction, so a
\* crash between them leaves the persisted ledger without the entry, unless
\* another session's script run committed on the shared connection between
\* the two statements; exactly then the orphan entry is persisted.
C6_OrphanIffOvertaken ==
    \A s \in Sessions :
        pc[s] = "between" =>
            /\ RowPersisted(s) <=> s \in intervening
            /\ s \notin intervening => Len(committed.transactions) < run[s].txpos

\* C6 witness: the process died with two sessions between their statements;
\* the entry of one was persisted by the other's run, the other's was not.
C6_BothOutcomes ==
    \E s, t \in Sessions :
        /\ pc[s] = "between" /\ pc[t] = "between"
        /\ RowPersisted(s)
        /\ ~RowPersisted(t)
        /\ transactions = committed.transactions

-----------------------------------------------------------------------------
(* C8 *)

\* l is 1-3 digits followed by exactly one letter
IsCanonicalLocation(l) ==
    /\ Len(l) \in 2..4
    /\ \A i \in 1..(Len(l) - 1) :
           l[i] \in {"0", "1", "2", "3", "4", "5", "6", "7", "8", "9"}
    /\ \E k \in 1..Len(Uppers) : l[Len(l)] = Uppers[k]

\* t without the characters outside [0-9A-Z]
RECURSIVE KeepLocChars(_)
KeepLocChars(t) ==
    IF t = <<>> THEN <<>>
    ELSE IF \/ Head(t) \in {"0", "1", "2", "3", "4", "5", "6", "7", "8", "9"}
            \/ \E k \in 1..Len(Uppers) : Head(t) = Uppers[k]
         THEN <<Head(t)>> \o KeepLocChars(Tail(t))
         ELSE KeepLocChars(Tail(t))

\* the upper-cased location without the characters outside [0-9A-Z]
CleanedLocation(loc) == KeepLocChars(Upper(loc))

\* exactly one row is inserted: the cleaned location, the trimmed name and
\* notes, the given quantity
OneRowInserted(loc, new_item, new_notes, new_qty) ==
    \E k \in DOMAIN inventory' \ DOMAIN inventory :
        /\ DOMAIN inventory' = DOMAIN inventory \cup {k}
        /\ \A i \in DOMAIN inventory : inventory'[i] = inventory[i]
        /\ inventory'[k].location = CleanedLocation(loc)
        /\ IsTrimOf(inventory'[k].item, new_item)
        /\ IsTrimOf(inventory'[k].notes, new_notes)
        /\ inventory'[k].quantity = new_qty

\* C8: for every input, exactly one inventory row is inserted when the
\* cleaned location is 1-3 digits followed by exactly one letter, and
\* otherwise the inventory and the ledger are left unchanged.
C8_AddDecidedByLocation ==
    [][\A s \in Sessions, new_item \in ItemNames, loc \in Locations,
          new_qty \in 0..MaxStock, new_notes \in NotesTexts :
          (pc[s] = "idle" /\ pc'[s] # "idle"
             /\ AddItem(s, new_item, loc, new_qty, new_notes)) =>
              IF IsCanonicalLocation(CleanedLocation(loc))
              THEN OneRowInserted(loc, new_item, new_notes, new_qty)
              ELSE inventory' = inventory /\ transactions' = transactions]_vars

\* C8 as amended: the same, for the inputs whose item name as typed is not
\* empty; every other input leaves the inventory and the ledger unchanged.
C8_AddDecidedByNameAndLocation ==
    [][\A s \in Sessions, new_item \in ItemNames, loc \in Locations,
          new_qty \in 0..MaxStock, new_notes \in NotesTexts :
          (pc[s] = "idle" /\ pc'[s] # "idle"
             /\ AddItem(s, new_item, loc, new_qty, new_notes)) =>
              IF new_item # <<>> /\ IsCanonicalLocation(CleanedLocation(loc))
              THEN OneRowInserted(loc, new_item, new_notes, new_qty)
              ELSE inventory' = inventory /\ transactions' = transactions]_vars

\* C8 witness: "105-c" was added as 105C with the trimmed name.
C8_RowAdded ==
    \E s \in Sessions :
        /\ pc[s] = "added"
        /\ inventory[run[s].newid].location = <<"1", "0", "5", "C">>
        /\ inventory[run[s].newid].item = <<"e">>

-----------------------------------------------------------------------------
(* C10 *)

\* C10: every URL built for a fallback attempt has the original URL's
\* username, password, database name and query, and differs from it only in
\* the host: the resolved numeric address (bracketed when IPv6) with the
\* original or the default port.
C10_FallbackUrlPreserves ==
    db.new_url # NoUrl =>
        /\ db.new_url.scheme = db.url.scheme
        /\ db.new_url.path = db.url.path
        /\ db.new_url.query = db.url.query
        /\ Username(db.new_url.netloc) = Username(db.url.netloc)
        /\ Password(db.new_url.netloc) = Password(db.url.netloc)
        /\ Hostname(db.new_url.netloc) = db.ip
        /\ db.family = AF_INET6 => Head(HostInfo(db.new_url.netloc)) = "["
        /\ Port(db.new_url.netloc) =
               IF Port(db.url.netloc) = <<>> THEN <<"5432">> ELSE Port(db.url.netloc)

\* Everything but the password is kept; a password becomes "<redacted>".
C10_FallbackUrlPreservesButPassword ==
    db.new_url # NoUrl =>
        /\ db.new_url.scheme = db.url.scheme
        /\ db.new_url.path = db.url.path
        /\ db.new_url.query = db.url.query
        /\ Username(db.new_url.netloc) = Username(db.url.netloc)
        /\ Password(db.new_url.netloc) \in {<<>>, <<"<redacted>">>}
        /\ (Password(db.new_url.netloc) = <<>>) <=> (Password(db.url.netloc) = <<>>)
        /\ Hostname(db.new_url.netloc) = db.ip
        /\ db.family = AF_INET6 => Head(HostInfo(db.new_url.netloc)) = "["
        /\ Port(db.new_url.netloc) =
               IF Port(db.url.netloc) = <<>> THEN <<"5432">> ELSE Port(db.url.netloc)

-----------------------------------------------------------------------------
(* C11 *)

\* a numeric address is tried in this step
AddressTried == db.pc = "loop" /\ (db'.i = db.i + 1 \/ db'.pc = "returned")

\* the function has returned or raised
CallEnded == db.pc \in {"returned", "raised"}

\* what C11 says of one step of the call
FallbackStepOk ==
    /\ (db.pc = "start" /\ db.url.scheme # "sqlite") =>
          /\ db'.pc \in {"returned", "resolve", "raised"}
          /\ db'.new_url = NoUrl
          /\ db'.pc = "returned" => db'.engine = db.url
          /\ db'.pc = "resolve" => db'.error = "orig_err"
    /\ (db'.pc = "returned" /\ db.url.scheme # "sqlite") =>
          /\ db'.connected
          /\ db.pc = "loop" => db'.engine = db'.new_url
    /\ AddressTried =>
          /\ db.error = "orig_err"
          /\ db.i \in 1..Len(db.addrinfos)
          /\ db.i = 1 => db.new_url = NoUrl
          /\ db.i > 1 => db.ip = db.addrinfos[db.i - 1].ip
          /\ db'.ip = db.addrinfos[db.i].ip
          /\ db'.family = db.addrinfos[db.i].family
          /\ db'.new_url = NumericUrl(db.url, db'.family, db'.ip)
    /\ db'.pc = "raised" =>
          /\ db'.error \in {"orig_err", "exception"}
          /\ db'.error = "exception" => db.pc = "start"
          /\ ~db'.connected
    /\ ~CallEnded

\* C11: for a non-sqlite URL the first step is the attempt on the original
\* URL; an engine is returned only when the connection made with it
\* succeeded; resolved addresses are tried only after the original attempt
\* failed with a network-class error, in resolution order, and none after the
\* first success; whenever the function raises, the error is the original
\* attempt's; and every call ends.
C11_FallbackControlFlow == [][FallbackStepOk]_vars /\ <>CallEnded

\* C11 witness: the original attempt failed with a network error, every
\* resolved address was tried and failed, and the original error was raised.
C11_AllAddressesFailed ==
    /\ db.pc = "raised"
    /\ db.error = "orig_err"
    /\ Len(db.addrinfos) = MaxAddrs
    /\ db.i = MaxAddrs + 1
    /\ db.ip = db.addrinfos[MaxAddrs].ip

-----------------------------------------------------------------------------
(* C12 *)

\* admin_authenticated of a session is set only by a Login with the correct
\* password and cleared only by a Logout
AuthChangedByLoginLogout ==
    \A s \in Sessions :
        /\ (~admin_authenticated[s] /\ admin_authenticated'[s]) => Login(s, ADMIN_PASSWORD)
        /\ (admin_authenticated[s] /\ ~admin_authenticated'[s]) => Logout(s)

\* the handler's SELECT is run by an authenticated session and returns the
\* rows whose location matches some cabinet/drawer selection
ToggleSelected(s) ==
    (pc[s] = "idle" /\ pc'[s] = "toggling") =>
        /\ admin_authenticated[s]
        /\ \E cab \in {All} \cup get_cabinets(inventory),
              drw \in {All} \cup get_drawers(inventory) :
              DOMAIN run'[s].rows =
                  {i \in DOMAIN inventory : ToggleMatches(inventory[i].location, cab, drw)}
        /\ inventory' = inventory
        /\ transactions' = transactions

\* the handler's UPDATEs: each selected row's quantity goes from before[i] to
\* 1 when that is 0 and to 0 otherwise; nothing else changes
ToggleWritten(s, before) ==
    (pc[s] = "toggling" /\ pc'[s] = "idle") =>
        /\ admin_authenticated[s]
        /\ DOMAIN inventory' = DOMAIN inventory
        /\ \A i \in DOMAIN inventory :
              IF i \in DOMAIN run[s].rows
              THEN /\ inventory'[i].quantity = (IF before[i] = 0 THEN 1 ELSE 0)
                   /\ inventory'[i] = [inventory[i] EXCEPT !.quantity = inventory'[i].quantity]
              ELSE inventory'[i] = inventory[i]
        /\ transactions' = transactions

\* C12: the admin toggle changes the store only while admin_authenticated is
\* true (set only by a login with the correct password, cleared by logout),
\* and then only the quantity of the rows matching the selected
\* cabinet/drawer: a stored quantity of 0 becomes 1 and every other stored
\* quantity becomes 0; other rows, all names, locations and notes, and the
\* ledger are unchanged.
C12_ToggleFromStored ==
    [][/\ AuthChangedByLoginLogout
       /\ \A s \in Sessions :
             /\ ToggleSelected(s)
             /\ ToggleWritten(s, [i \in DOMAIN inventory |-> inventory[i].quantity])]_vars

\* What the handler does: the same, with each row's new quantity computed
\* from the quantity its SELECT returned.
C12_ToggleFromSelected ==
    [][/\ AuthChangedByLoginLogout
       /\ \A s \in Sessions :
             /\ ToggleSelected(s)
             /\ ToggleWritten(s, run[s].rows)]_vars

====
